---------------------------- MODULE Spec2Model ----------------------------
(***************************************************************************)
(* A model of uncertain_worms/environments/minigrid/api.py: the           *)
(* MinigridState dataclass (grid, agent_pos, agent_dir, carrying) and its *)
(* three queries front_pos, get_type_indices and get_field_of_view.       *)
(*                                                                         *)
(* Arrays are 0-based, as in numpy: a 2-D array is a function             *)
(* [0..n0-1 -> [0..n1-1 -> Int]], indexed A[x][y] like grid[x, y].        *)
(* Python sequences (lists, tuples) are TLA+ sequences.                   *)
(***************************************************************************)
EXTENDS Integers, Sequences, FiniteSets

VARIABLES
    grid,       \* MinigridState.grid
    agent_pos,  \* MinigridState.agent_pos, <<x, y>>
    agent_dir,  \* MinigridState.agent_dir
    carrying,   \* MinigridState.carrying: Optional[int], <<>> or <<code>>
    op,         \* the query called last ("init" before any call)
    arg,        \* the argument of that call (view_size, type; 0 if none)
    ret,        \* the value it returned (NoValue if it raised)
    exc         \* the exception it raised ("none" if it returned)

vars == <<grid, agent_pos, agent_dir, carrying, op, arg, ret, exc>>

state == <<grid, agent_pos, agent_dir, carrying>>

-----------------------------------------------------------------------------
(* Bounds of the model.                                                    *)

MaxW == 3       \* grid.shape[0] ranges over 1..MaxW
MaxH == 3       \* grid.shape[1] ranges over 1..MaxH
MaxView == 3    \* view_size ranges over 1..MaxView
PosSlack == 2   \* off-grid agent positions reach this far beyond each edge

-----------------------------------------------------------------------------
(* ObjectTypes, the cell codes the model uses.                             *)

empty == 1
wall == 2
key == 7
agent == 12

\* Optional[int]: None is the empty sequence, a value v is <<v>>.
NoneValue == <<>>
Some(v) == <<v>>
NoValue == <<>>

Max(a, b) == IF a >= b THEN a ELSE b
Min(a, b) == IF a <= b THEN a ELSE b

-----------------------------------------------------------------------------
(* numpy arrays and Python indexing.                                       *)

\* A.shape[0] and A.shape[1] of a 2-D array with no empty axis.
Shape0(A) == Cardinality(DOMAIN A)
Shape1(A) == Cardinality(DOMAIN A[0])

width(g) == Shape0(g)
height(g) == Shape1(g)

\* An ndarray holds its elements: the function is evaluated once, here,
\* and not again at every later read of an element.
Stored(A) == IF A = A THEN A ELSE A

\* np.full((n, n), v)
Full(n, v) == Stored([i \in 0..(n - 1) |-> [j \in 0..(n - 1) |-> v]])

\* A slice bound of a[start:stop] on an axis of length len: a negative
\* bound counts from the end, and every bound is clamped to [0, len].
SliceBound(i, len) == IF i < 0 THEN Max(i + len, 0) ELSE Min(i, len)

\* The indices a[start:stop] selects on an axis of length len, in order.
SliceIndices(start, stop, len) ==
    LET lo == SliceBound(start, len)
        hi == SliceBound(stop, len)
    IN  Stored([k \in 1..Max(hi - lo, 0) |-> lo + k - 1])

\* numpy broadcasting of one axis of an assigned value onto the target axis.
Broadcastable(srcLen, dstLen) == srcLen = dstLen \/ srcLen = 1

BroadcastIndex(k, srcLen, dstLen) == IF srcLen = dstLen THEN k ELSE 1

\* A[tx, ty] = g[sx, sy] for index sequences tx, ty (target) and sx, sy
\* (source) whose lengths broadcast: the array A after the assignment.
AssignSlice(A, g, tx, ty, sx, sy) ==
    Stored([i \in DOMAIN A |-> [j \in DOMAIN A[i] |->
        IF (\E a \in DOMAIN tx : tx[a] = i) /\ (\E b \in DOMAIN ty : ty[b] = j)
        THEN LET a == CHOOSE a \in DOMAIN tx : tx[a] = i
                 b == CHOOSE b \in DOMAIN ty : ty[b] = j
             IN  g[sx[BroadcastIndex(a, Len(sx), Len(tx))]]
                  [sy[BroadcastIndex(b, Len(sy), Len(ty))]]
        ELSE A[i][j]]])

\* A.T
Transpose(A) ==
    LET n0 == Shape0(A)
        n1 == Shape1(A)
    IN  Stored([i \in 0..(n1 - 1) |-> [j \in 0..(n0 - 1) |-> A[j][i]]])

\* np.rot90(A, k=1): the first row of the result is the last column of A.
Rot90(A) ==
    LET n0 == Shape0(A)
        n1 == Shape1(A)
    IN  Stored([i \in 0..(n1 - 1) |-> [j \in 0..(n0 - 1) |->
            A[j][n1 - 1 - i]]])

\* RotateLeft with the transposes dropped: np.rot90(fov, k=1).
RotateLeft_plain_rot90(A) == Rot90(A)

\* The body of the loop of get_field_of_view: np.rot90(fov.T, k=1).T
RotateLeft(A) == Transpose(Rot90(Transpose(A)))

\* for _ in range(k): fov = RotateLeft(fov)     (no iteration when k <= 0)
RECURSIVE RotateTimes(_, _)
RotateTimes(A, k) == IF k <= 0 THEN A ELSE RotateTimes(RotateLeft(A), k - 1)

-----------------------------------------------------------------------------
(* MinigridState and its queries.                                          *)

\* DIR_TO_VEC with the Y axis pointing up: down and up exchanged.
DIR_TO_VEC_y_up == << <<1, 0>>, <<0, -1>>, <<-1, 0>>, <<0, 1>> >>

\* DIR_TO_VEC, a Python list: DIR_TO_VEC[d] is element d + 1 here.
DIR_TO_VEC == << <<1, 0>>, <<0, 1>>, <<-1, 0>>, <<0, -1>> >>

\* Python list indexing lst[i] on a list of length len: a negative index
\* counts from the end; the result is the 0-based position, or len (no
\* position) when the index is out of range and IndexError is raised.
ListIndex(i, len) ==
    LET k == IF i < 0 THEN i + len ELSE i
    IN  IF k >= 0 /\ k < len THEN k ELSE len

\* MinigridState.front_pos: [ret, exc]
front_pos(pos, dir) ==
    LET k == ListIndex(dir, Len(DIR_TO_VEC))
    IN  IF k = Len(DIR_TO_VEC)
        THEN [ret |-> NoValue, exc |-> "IndexError"]
        ELSE [ret |-> <<pos[1] + DIR_TO_VEC[k + 1][1],
                        pos[2] + DIR_TO_VEC[k + 1][2]>>,
              exc |-> "none"]

\* ScanOrder in Fortran (column-major) order.
ScanOrder_column_major(w, h) ==
    [k \in 1..(w * h) |-> <<(k - 1) % w, (k - 1) \div w>>]

\* The coordinates of an array of shape (w, h) in C (row-major) order.
ScanOrder(w, h) == [k \in 1..(w * h) |-> <<(k - 1) \div h, (k - 1) % h>>]

\* np.where(g == type): the pair (idxs[0], idxs[1]) of index arrays.
np_where(g, type) ==
    LET hits == SelectSeq(ScanOrder(width(g), height(g)),
                          LAMBDA c : g[c[1]][c[2]] = type)
    IN  << [k \in 1..Len(hits) |-> hits[k][1]],
           [k \in 1..Len(hits) |-> hits[k][2]] >>

\* list(zip(a, b))
Zip(a, b) == [k \in 1..Min(Len(a), Len(b)) |-> <<a[k], b[k]>>]

\* MinigridState.get_type_indices
get_type_indices(g, type) ==
    LET idxs == np_where(g, type) IN Zip(idxs[1], idxs[2])

\* TopLeft with the window centred on the agent in every branch.
TopLeft_centred(pos, branch, view_size) ==
    <<pos[1] - view_size \div 2, pos[2] - view_size \div 2>>

\* The if/elif chain of get_field_of_view: (topX, topY) in the branch taken.
TopLeft(pos, branch, view_size) ==
    IF branch = 0 THEN <<pos[1], pos[2] - view_size \div 2>>
    ELSE IF branch = 1 THEN <<pos[1] - view_size \div 2, pos[2]>>
    ELSE IF branch = 2
        THEN <<pos[1] - view_size + 1, pos[2] - view_size \div 2>>
    ELSE <<pos[1] - view_size \div 2, pos[2] - view_size + 1>>

\* PadOffset with the overlap always copied to the window's origin.
PadOffset_origin(top) == 0

\* px0 = max(0, -topX), py0 = max(0, -topY)
PadOffset(top) == Max(0, 0 - top)

\* MarkAgent writing the centre cell (shape[0] // 2, shape[1] // 2).
MarkAgent_centre(g) ==
    [g EXCEPT ![width(g) \div 2][height(g) \div 2] = agent]

\* agent_pos = (shape[0] // 2, shape[1] - 1); self.grid[agent_pos] = agent
MarkAgent(g) ==
    [g EXCEPT ![width(g) \div 2][height(g) - 1] = agent]

\* An outcome of get_field_of_view that raises e: no value, grid untouched.
Raise(g, e) == [grid |-> g, ret |-> NoValue, exc |-> e]

\* get_field_of_view from the allocation of fov on, with (topX, topY) set
\* by the given branch of the if/elif chain: the set of possible outcomes
\* [grid, ret, exc].  The slice assignment raises ValueError when the
\* shape of grid[gx0:gx1, gy0:gy1] does not broadcast to the shape of the
\* target slice of fov; this happens before the grid is written.
Extract(g, pos, branch, dir, view_size) ==
    LET top == TopLeft(pos, branch, view_size)
        topX == top[1]
        topY == top[2]
        fov == Full(view_size, wall)
        gx0 == Max(topX, 0)
        gy0 == Max(topY, 0)
        gx1 == Min(topX + view_size, width(g))
        gy1 == Min(topY + view_size, height(g))
        px0 == PadOffset(topX)
        py0 == PadOffset(topY)
        tx == SliceIndices(px0, px0 + (gx1 - gx0), view_size)
        ty == SliceIndices(py0, py0 + (gy1 - gy0), view_size)
        sx == SliceIndices(gx0, gx1, width(g))
        sy == SliceIndices(gy0, gy1, height(g))
    IN  IF Broadcastable(Len(sx), Len(tx)) /\ Broadcastable(Len(sy), Len(ty))
        THEN {[grid |-> MarkAgent(g),
               ret |-> RotateTimes(AssignSlice(fov, g, tx, ty, sx, sy), dir + 1),
               exc |-> "none"]}
        ELSE {Raise(g, "ValueError")}

\* The else branch: `assert False, "invalid agent direction"`.  Run with
\* assertions stripped (python -O) the branch is empty and the first read
\* of topX raises UnboundLocalError instead; both before the grid is written.
InvalidDirection(g) ==
    {Raise(g, e) : e \in {"AssertionError", "UnboundLocalError"}}

\* get_field_of_view with the last elif written as else: every direction
\* that is not 0, 1 or 2 is taken as facing up.
get_field_of_view_else_up(g, pos, dir, view_size) ==
    Extract(g, pos, IF dir \in {0, 1, 2} THEN dir ELSE 3, dir, view_size)

\* get_field_of_view with the agent cell written before the window is copied.
get_field_of_view_mark_first(g, pos, dir, view_size) ==
    IF dir \in {0, 1, 2, 3}
    THEN Extract(MarkAgent(g), pos, dir, dir, view_size)
    ELSE InvalidDirection(g)

\* MinigridState.get_field_of_view: the set of possible outcomes.
get_field_of_view(g, pos, dir, view_size) ==
    IF dir \in {0, 1, 2, 3}
    THEN Extract(g, pos, dir, dir, view_size)
    ELSE InvalidDirection(g)

-----------------------------------------------------------------------------
(* The states a MinigridState is constructed in.                           *)

ValidDirections == {0, 1, 2, 3}
InvalidDirections == {-1, 4, 7}
Directions == ValidDirections \cup InvalidDirections

ViewSizes == 1..MaxView
TypeArgs == {empty, wall}
Carried == {NoneValue, Some(key)}

EmptyGrid(w, h) == [x \in 0..(w - 1) |-> [y \in 0..(h - 1) |-> empty]]

\* The rooms of the model: all empty, or empty but for one wall cell.
Grids(w, h) ==
    {EmptyGrid(w, h)} \cup
    {[EmptyGrid(w, h) EXCEPT ![x][y] = wall] :
        <<x, y>> \in (0..(w - 1)) \X (0..(h - 1))}

\* The uniform rooms: every cell empty, or every cell wall.
UniformGrids(w, h) ==
    {[x \in 0..(w - 1) |-> [y \in 0..(h - 1) |-> c]] : c \in {empty, wall}}

InsidePositions(w, h) == (0..(w - 1)) \X (0..(h - 1))
AnyPositions(w, h) ==
    ((0 - PosSlack)..(w - 1 + PosSlack)) \X ((0 - PosSlack)..(h - 1 + PosSlack))

Constructed(uniform, inside, dirs, carried) ==
    /\ \E w \in 1..MaxW, h \in 1..MaxH :
        /\ grid \in (IF uniform THEN UniformGrids(w, h) ELSE Grids(w, h))
        /\ agent_pos \in (IF inside THEN InsidePositions(w, h)
                                    ELSE AnyPositions(w, h))
    /\ agent_dir \in dirs
    /\ carrying \in carried
    /\ op = "init"
    /\ arg = 0
    /\ ret = NoValue
    /\ exc = "none"

\* A state that meets the invariants of the data model: the agent stands in
\* the grid and faces one of the four directions.
Init == Constructed(FALSE, TRUE, ValidDirections, Carried)

\* Any pose, in a uniform room: the position may lie off the grid and the
\* direction may be invalid.
InitAnyPose == Constructed(TRUE, FALSE, Directions, {NoneValue})

-----------------------------------------------------------------------------
(* One action per query.                                                   *)

FrontPos ==
    LET r == front_pos(agent_pos, agent_dir)
    IN  /\ op' = "front_pos"
        /\ arg' = 0
        /\ ret' = r.ret
        /\ exc' = r.exc
        /\ UNCHANGED state

GetTypeIndices ==
    \E type \in TypeArgs :
        /\ op' = "get_type_indices"
        /\ arg' = type
        /\ ret' = get_type_indices(grid, type)
        /\ exc' = "none"
        /\ UNCHANGED state

GetFieldOfView ==
    \E view_size \in ViewSizes :
        \E o \in get_field_of_view(grid, agent_pos, agent_dir, view_size) :
            /\ op' = "get_field_of_view"
            /\ arg' = view_size
            /\ grid' = o.grid
            /\ ret' = o.ret
            /\ exc' = o.exc
            /\ UNCHANGED <<agent_pos, agent_dir, carrying>>

Next == FrontPos \/ GetTypeIndices \/ GetFieldOfView

Spec == Init /\ [][Next]_vars

SpecAnyPose == InitAnyPose /\ [][Next]_vars

-----------------------------------------------------------------------------
(* Vocabulary of the properties.                                           *)

InGrid(g, x, y) ==
    /\ x >= 0 /\ x < width(g)
    /\ y >= 0 /\ y < height(g)

AgentInGrid == InGrid(grid, agent_pos[1], agent_pos[2])

\* The cell (width // 2, height - 1) of the grid.
MarkX(g) == width(g) \div 2
MarkY(g) == height(g) - 1

\* The window cell that the returned view shows at index (i, j) after
\* dir + 1 quarter-turns of a window of side n.
SourceIndex(dir, n, i, j) ==
    IF dir = 0 THEN <<n - 1 - j, i>>
    ELSE IF dir = 1 THEN <<n - 1 - i, n - 1 - j>>
    ELSE IF dir = 2 THEN <<j, n - 1 - i>>
    ELSE <<i, j>>

\* The grid coordinate shown at index (i, j) of the returned view.
SourceCoord(pos, dir, n, i, j) ==
    <<TopLeft(pos, dir, n)[1] + SourceIndex(dir, n, i, j)[1],
      TopLeft(pos, dir, n)[2] + SourceIndex(dir, n, i, j)[2]>>

\* What grid g shows at coordinate c: its cell, or wall off the grid.
CellOrWall(g, c) == IF InGrid(g, c[1], c[2]) THEN g[c[1]][c[2]] ELSE wall

IsSquare(v, n) ==
    /\ DOMAIN v = 0..(n - 1)
    /\ \A i \in 0..(n - 1) : DOMAIN v[i] = 0..(n - 1)

\* v is the oriented view of side n of grid g for the pose (pos, dir).
IsViewOf(v, g, pos, dir, n) ==
    LET top == TopLeft(pos, dir, n)
        w == width(g)
        h == height(g)
    IN  /\ IsSquare(v, n)
        /\ \A i, j \in 0..(n - 1) :
            LET s == SourceIndex(dir, n, i, j)
                x == top[1] + s[1]
                y == top[2] + s[2]
            IN  v[i][j] = IF x >= 0 /\ x < w /\ y >= 0 /\ y < h
                          THEN g[x][y]
                          ELSE wall

WindowInside(g, pos, dir, n) ==
    /\ InGrid(g, TopLeft(pos, dir, n)[1], TopLeft(pos, dir, n)[2])
    /\ InGrid(g, TopLeft(pos, dir, n)[1] + n - 1, TopLeft(pos, dir, n)[2] + n - 1)

WindowOutside(g, pos, dir, n) ==
    \/ TopLeft(pos, dir, n)[1] >= width(g)
    \/ TopLeft(pos, dir, n)[1] + n <= 0
    \/ TopLeft(pos, dir, n)[2] >= height(g)
    \/ TopLeft(pos, dir, n)[2] + n <= 0

Holds(v, code) == \E i \in DOMAIN v : \E j \in DOMAIN v[i] : v[i][j] = code

-----------------------------------------------------------------------------
\* C1: for an agent inside the grid, a valid direction and an odd
\* view_size, get_field_of_view returns a view_size x view_size array whose
\* cell (i, j) is the reoriented image of one cell of the window
\* [topX, topX + view_size) x [topY, topY + view_size): the grid's value
\* before the call where that cell lies in the grid, wall where it does
\* not; with the whole window inside the grid, every wall of the result is
\* a wall of the grid.
C1_ViewIsClippedWindow ==
    [][(/\ op' = "get_field_of_view"
        /\ arg' % 2 = 1
        /\ AgentInGrid
        /\ agent_dir \in ValidDirections)
       => /\ exc' = "none"
          /\ IsViewOf(ret', grid, agent_pos, agent_dir, arg')
          /\ WindowInside(grid, agent_pos, agent_dir, arg')
             => \A i, j \in 0..(arg' - 1) :
                 ret'[i][j] = wall
                 => LET c == SourceCoord(agent_pos, agent_dir, arg', i, j)
                    IN  grid[c[1]][c[2]] = wall]_vars

\* An agent in the corner (0, 0) of a wall-free grid, facing up: the view of
\* side 3 shows walls (off the grid) and empty cells (in the grid).
C1_Witness ==
    /\ op = "get_field_of_view" /\ exc = "none" /\ arg = 3
    /\ agent_pos = <<0, 0>> /\ agent_dir = 3
    /\ width(grid) = 3 /\ height(grid) = 3
    /\ ~Holds(grid, wall)
    /\ ret[0][0] = wall /\ ret[0][2] = wall /\ ret[2][1] = wall
    /\ ret[1][2] \in {empty, agent} /\ ret[2][2] = empty

\* C2: for every valid direction, in-grid position and odd view_size the
\* view holds the agent's own cell at index (view_size // 2, view_size - 1)
\* and, when view_size >= 3 and front_pos is in the grid, the cell in front
\* of the agent at index (view_size // 2, view_size - 2).
C2_AgentAtMiddleOfLastEdge ==
    [][(/\ op' = "get_field_of_view"
        /\ arg' % 2 = 1
        /\ AgentInGrid
        /\ agent_dir \in ValidDirections)
       => LET n == arg'
              f == front_pos(agent_pos, agent_dir).ret
          IN  /\ exc' = "none"
              /\ ret'[n \div 2][n - 1] = grid[agent_pos[1]][agent_pos[2]]
              /\ (n >= 3 /\ InGrid(grid, f[1], f[2]))
                 => ret'[n \div 2][n - 2] = grid[f[1]][f[2]]]_vars

\* An agent facing left with a wall right in front of it: the wall shows at
\* index (1, 1) of the view of side 3, the agent's empty cell at (1, 2).
C2_Witness ==
    /\ op = "get_field_of_view" /\ exc = "none" /\ arg = 3
    /\ agent_dir = 2 /\ agent_pos[1] >= 1 /\ AgentInGrid
    /\ grid[agent_pos[1] - 1][agent_pos[2]] = wall
    /\ grid[agent_pos[1]][agent_pos[2]] = empty
    /\ ret[1][1] = wall /\ ret[1][2] = empty

\* C3, as amended: a call of get_field_of_view that returns a window leaves
\* grid[width // 2, height - 1] set to agent, and the call returns for every
\* grid, every agent position inside the grid, every view_size and every
\* direction in {0, 1, 2, 3}; a call with a direction outside {0, 1, 2, 3}
\* raises before the write and leaves the grid as it was.
C3_MarkedWhenReturned ==
    [][op' = "get_field_of_view"
       => /\ exc' = "none" => grid'[MarkX(grid)][MarkY(grid)] = agent
          /\ (agent_dir \in ValidDirections /\ AgentInGrid) => exc' = "none"
          /\ agent_dir \notin ValidDirections
             => (exc' # "none" /\ grid' = grid)]_vars

\* A call on a 3 x 3 grid of walls has returned, and the cell (1, 2) alone
\* now holds agent.
C3_Witness ==
    /\ op = "get_field_of_view" /\ exc = "none"
    /\ width(grid) = 3 /\ height(grid) = 3
    /\ agent_pos = <<1, 1>> /\ agent_dir = 1 /\ arg = 3
    /\ \A x, y \in 0..2 : grid[x][y] = IF <<x, y>> = <<1, 2>> THEN agent ELSE wall
    /\ \A i, j \in 0..2 : ret[i][j] = wall

\* C3 as stated: after any call of get_field_of_view, whatever the direction
\* value, grid[width // 2, height - 1] is agent.  (Read here on the states
\* whose agent is inside the grid.)
C3_MarkedForEveryInput ==
    (op = "get_field_of_view" /\ AgentInGrid)
    => grid[MarkX(grid)][MarkY(grid)] = agent

\* C4: with a direction outside {0, 1, 2, 3} get_field_of_view raises the
\* invalid-direction error and returns no window.
C4_InvalidDirectionIsFatal ==
    (op = "get_field_of_view" /\ agent_dir \notin ValidDirections)
    => /\ exc \in {"AssertionError", "UnboundLocalError"}
       /\ ret = NoValue

\* A call with direction 7 has failed its assertion.
C4_Witness ==
    /\ op = "get_field_of_view" /\ agent_dir = 7
    /\ exc = "AssertionError" /\ ret = NoValue

\* C5 as stated: with a valid direction get_field_of_view returns a window
\* for every agent position, on or off the grid, and the window is all wall
\* whenever [topX, topX + view_size) x [topY, topY + view_size) lies
\* completely outside the grid.
C5_OutOfBoundsNeverFails ==
    (op = "get_field_of_view" /\ agent_dir \in ValidDirections)
    => /\ exc = "none"
       /\ WindowOutside(grid, agent_pos, agent_dir, arg)
          => \A i, j \in 0..(arg - 1) : ret[i][j] = wall

\* C6: for a valid direction front_pos is agent_pos plus the displacement of
\* the table right (1, 0), down (0, 1), left (-1, 0), up (0, -1), never
\* clamped to the grid, for every agent position; the query leaves grid,
\* agent_pos, agent_dir and carrying as they were.
C6_FrontPosIsUnclampedSum ==
    [][op' = "front_pos"
       => /\ UNCHANGED state
          /\ agent_dir \in ValidDirections
             => /\ exc' = "none"
                /\ ret' = <<agent_pos[1] + (CASE agent_dir = 0 -> 1
                                             [] agent_dir = 2 -> -1
                                             [] OTHER -> 0),
                            agent_pos[2] + (CASE agent_dir = 1 -> 1
                                             [] agent_dir = 3 -> -1
                                             [] OTHER -> 0)>>]_vars

\* An agent on the bottom border facing down: front_pos has y = height.
C6_Witness ==
    /\ op = "front_pos" /\ exc = "none" /\ agent_dir = 1
    /\ AgentInGrid /\ agent_pos[2] = height(grid) - 1
    /\ ret = <<agent_pos[1], height(grid)>>

\* C7: get_type_indices(type) returns exactly the coordinates whose cell
\* equals type, each once, in ascending order of the first index and then
\* of the second; the empty sequence when no cell has the type.
C7_TypeIndicesRowMajor ==
    op = "get_type_indices"
    => /\ exc = "none"
       /\ \A k \in 1..Len(ret) :
           /\ InGrid(grid, ret[k][1], ret[k][2])
           /\ grid[ret[k][1]][ret[k][2]] = arg
       /\ \A x \in 0..(width(grid) - 1), y \in 0..(height(grid) - 1) :
           grid[x][y] = arg => \E k \in 1..Len(ret) : ret[k] = <<x, y>>
       /\ \A k \in 1..(Len(ret) - 1) :
           \/ ret[k][1] < ret[k + 1][1]
           \/ (ret[k][1] = ret[k + 1][1] /\ ret[k][2] < ret[k + 1][2])

\* A result in which a step to the next first index goes back in the second.
C7_Witness ==
    /\ op = "get_type_indices" /\ Len(ret) >= 4
    /\ \E k \in 1..(Len(ret) - 1) :
        ret[k][1] < ret[k + 1][1] /\ ret[k][2] > ret[k + 1][2]

\* C8 as stated: with a direction outside {0, 1, 2, 3}, negative values
\* included, front_pos raises an error.
C8_FrontPosRejectsInvalidDirection ==
    (op = "front_pos" /\ agent_dir \notin ValidDirections) => exc # "none"

\* The window [topX, topX + n) x [topY, topY + n) of grid g before it is
\* reoriented, wall off the grid.
PaddedWindow(g, pos, dir, n) ==
    LET top == TopLeft(pos, dir, n)
    IN  [i \in 0..(n - 1) |-> [j \in 0..(n - 1) |->
            CellOrWall(g, <<top[1] + i, top[2] + j>>)]]

\* The plain quarter-turns of a square array: np.rot90(A, k=1), counter-
\* clockwise in array indices, and np.rot90(A, k=-1), clockwise.
PlainTurn(sense, A) ==
    LET n == Shape0(A)
    IN  [i \in 0..(n - 1) |-> [j \in 0..(n - 1) |->
            IF sense = "ccw" THEN A[j][n - 1 - i] ELSE A[n - 1 - j][i]]]

RECURSIVE PlainTurns(_, _, _)
PlainTurns(sense, A, k) ==
    IF k = 0 THEN A ELSE PlainTurns(sense, PlainTurn(sense, A), k - 1)

\* The square windows the composite turn is compared on: the square rooms
\* of the model, of every side a view can have.
SquareWindows == UNION {Grids(n, n) : n \in ViewSizes}

\* C9, as amended: the returned view is the padded window turned
\* agent_dir + 1 times (1, 2, 3, 4 times for right, down, left, up) by the
\* composite transpose, rot90, transpose, and that composite is the plain
\* clockwise quarter-turn np.rot90(fov, k=-1) of the array (a left turn of
\* the window drawn with x to the right and y down): it differs from the
\* plain counter-clockwise quarter-turn np.rot90(fov, k=1) on windows of
\* side 2 or more (on exactly the windows that a half-turn changes), and
\* from the plain clockwise one on no window.
C9_CompositeIsPlainClockwiseTurn ==
    [][(op' = "get_field_of_view" /\ exc' = "none")
       => LET w == PaddedWindow(grid, agent_pos, agent_dir, arg')
          IN  /\ ret' = PlainTurns("cw", w, agent_dir + 1)
              /\ RotateLeft(w) = PlainTurn("cw", w)
              /\ (RotateLeft(w) # PlainTurn("ccw", w))
                 <=> (PlainTurns("cw", w, 2) # w)]_vars

\* A view of side 3 of an agent facing right: one composite turn of its
\* window, which the plain clockwise turn reproduces and the plain counter-
\* clockwise turn does not.
C9_Witness ==
    /\ op = "get_field_of_view" /\ exc = "none" /\ arg = 3 /\ agent_dir = 0
    /\ LET w == PaddedWindow(grid, agent_pos, agent_dir, arg)
       IN  /\ ret = RotateLeft(w)
           /\ ret = PlainTurn("cw", w)
           /\ ret # PlainTurn("ccw", w)

\* C9 as stated: no plain quarter-turn of the array reproduces the
\* composite; from each of the two, it differs on some square window of a
\* side up to MaxView.
C9_NoPlainTurnReproduces ==
    (op = "get_field_of_view" /\ exc = "none" /\ arg >= 2)
    => \A sense \in {"ccw", "cw"} :
        \E w \in SquareWindows : RotateLeft(w) # PlainTurn(sense, w)

\* C10: in a sequence of get_field_of_view calls that return, no call
\* changes a grid cell other than (width // 2, height - 1), nor the grid's
\* shape, agent_pos, agent_dir or carrying; the window a call returns is
\* computed from the grid as it stood before that call, so it shows agent
\* only where the grid already held it (the mark of an earlier call).
C10_OnlyMarkCellChanges ==
    [][(op' = "get_field_of_view" /\ exc' = "none")
       => /\ DOMAIN grid' = DOMAIN grid
          /\ \A x \in DOMAIN grid :
              /\ DOMAIN grid'[x] = DOMAIN grid[x]
              /\ \A y \in DOMAIN grid[x] :
                  (x # MarkX(grid) \/ y # MarkY(grid))
                  => grid'[x][y] = grid[x][y]
          /\ UNCHANGED <<agent_pos, agent_dir, carrying>>
          /\ IsViewOf(ret', grid, agent_pos, agent_dir, arg')
          /\ \A i, j \in 0..(arg' - 1) :
              ret'[i][j] = agent
              => LET c == SourceCoord(agent_pos, agent_dir, arg', i, j)
                 IN  InGrid(grid, c[1], c[2]) /\ grid[c[1]][c[2]] = agent]_vars

\* The window of a returned call covers the marked cell, which now holds
\* agent, and the window shows what the cell held before.
C10_Witness ==
    /\ op = "get_field_of_view" /\ exc = "none"
    /\ grid[MarkX(grid)][MarkY(grid)] = agent
    /\ \E i, j \in 0..(arg - 1) :
        /\ SourceCoord(agent_pos, agent_dir, arg, i, j) = <<MarkX(grid), MarkY(grid)>>
        /\ ret[i][j] = wall

=============================================================================
